---- MODULE Spec2Model ----
(***************************************************************************)
(* The draft room of triple-draft: the pick ledger (the picks table of     *)
(* the store), the clients that read and write it (DraftRoomPage), and     *)
(* the pure draft-order functions.                                         *)
(***************************************************************************)
EXTENDS Integers, Sequences, FiniteSets, Bags, TLC

\* ------------------------------------------------------------------ bounds
\* Rows ever inserted into the picks table in one behaviour.
MaxPicks == 2
\* Asynchronous calls (draft, undo, load) in flight at the same time.
MaxCalls == 2
\* Change notifications queued for one client.
MaxEvents == 1
\* Longest draft order and largest pick number the resolver is tried on.
MaxN == 4
MaxPickNumber == 20
\* Rows ever inserted into the picks table of the two rooms together.
MaxRoomPicks == 3

\* ------------------------------------------------------------------ data
Null == "null"

\* The coaches of the room, their names, and the clients (browser pages),
\* each authenticated as one coach by its invite token.
Coaches == {"cA", "cB"}
coach_name == [c \in Coaches |-> IF c = "cA" THEN "Rowland" ELSE "Bea"]
Clients == {"k1", "k2"}
coachOf == [k \in Clients |-> IF k = "k1" THEN "cA" ELSE "cB"]

\* The catalog: players and their NFL team.
Players == {"p1", "p2"}
nfl_team == [p \in Players |-> "T1"]

\* The draft orders a room can be provisioned with (rooms.draft_order).
Orders == {<< >>, <<"cA", "cB">>}

\* Participant ids and orders the resolver is tried on, the empty order
\* (no draft order set) included.
ResolverIds == {"A", "B", "C", "D"}
ResolverOrders ==
    UNION {{s \in [1..n -> ResolverIds] : \A i, j \in 1..n : s[i] = s[j] => i = j}
           : n \in 0..MaxN}

\* Two rooms with their codes and draft orders, the coaches with their
\* room and invite token, and the players of each room's catalog.
RoomsTable ==
    {[id |-> "rA", room_code |-> "codeA", draft_order |-> <<"cA1", "cA2">>],
     [id |-> "rB", room_code |-> "codeB", draft_order |-> <<"cB1">>]}
CoachesTable ==
    {[id |-> "cA1", room_id |-> "rA", invite_token |-> "tA1", coach_name |-> "Rowland"],
     [id |-> "cA2", room_id |-> "rA", invite_token |-> "tA2", coach_name |-> "Bea"],
     [id |-> "cB1", room_id |-> "rB", invite_token |-> "tB1", coach_name |-> "Rowland"]}
PlayersTable ==
    {[id |-> "a1", room_id |-> "rA", nfl_team |-> "T1"],
     [id |-> "a2", room_id |-> "rA", nfl_team |-> "T2"],
     [id |-> "b1", room_id |-> "rB", nfl_team |-> "T1"]}

\* The draft-room pages that are open, and the room codes and tokens of the
\* URLs they are opened with.
Visitors == {"v1", "v2"}
RoomCodes == {"", "codeA", "codeB", "nocode"}
Tokens == {"", "tA1", "tA2", "tB1", "bad"}

\* A page as it is mounted: status "loading", no room, no coach, no picks,
\* no loadPicks waiting.
NewPage(roomCode, token) ==
    [roomCode |-> roomCode, token |-> token, status |-> "loading",
     room |-> Null, coach |-> Null, picks |-> {}, pending |-> 0]

EmptyStore == [picks |-> {}, nextId |-> 1]

\* ------------------------------------------------------- the players list
\* Strings that are searched or compared letter by letter are sequences of
\* characters.
LowerOf ==
    [c \in {"A", "B", "D", "E", "K", "L", "Q", "R", "S", "T", "W"} |->
        CASE c = "A" -> "a" [] c = "B" -> "b" [] c = "D" -> "d" [] c = "E" -> "e"
          [] c = "K" -> "k" [] c = "L" -> "l" [] c = "Q" -> "q" [] c = "R" -> "r"
          [] c = "S" -> "s" [] c = "T" -> "t" [] c = "W" -> "w"]
toLowerCase(s) ==
    [i \in 1..Len(s) |-> IF s[i] \in DOMAIN LowerOf THEN LowerOf[s[i]] ELSE s[i]]
RECURSIVE trimStart(_)
trimStart(s) == IF s # << >> /\ Head(s) = " " THEN trimStart(Tail(s)) ELSE s
RECURSIVE trimEnd(_)
trimEnd(s) ==
    IF s # << >> /\ s[Len(s)] = " " THEN trimEnd(SubSeq(s, 1, Len(s) - 1)) ELSE s
trim(s) == trimEnd(trimStart(s))
includes(s, q) ==
    \E i \in 0..(Len(s) - Len(q)) : SubSeq(s, i + 1, i + Len(q)) = q

\* The players table in the order the store returns it for
\* .order("ppg", desc, nullsFirst: false). 0 stands for a null ppg.
PlayerRow(id, roomId, name, team, position, ppg) ==
    [id |-> id, room_id |-> roomId, player_name |-> name, nfl_team |-> team,
     position |-> position, ppg |-> ppg]
PlayersByPpg ==
    << PlayerRow("q1", "rA", <<"A", "b">>, <<"K", "T">>, <<"Q", "B">>, 20),
       PlayerRow("x1", "rB", <<"B", "a">>, <<"K", "T">>, <<"R", "B">>, 18),
       PlayerRow("r1", "rA", <<"R", "a">>, <<"S", "B">>, <<"R", "B">>, 15),
       PlayerRow("k1", "rA", <<"K", "a">>, <<"S", "B">>, <<"K">>, 9),
       PlayerRow("d1", "rA", <<"D", "a">>, <<"K", "T">>, <<"D", "S", "T">>, 7),
       PlayerRow("t1", "rA", <<"T", "a">>, <<"A", "B">>, <<"T", "E">>, 0) >>
ListPlayerIds == {PlayersByPpg[i].id : i \in 1..Len(PlayersByPpg)}
\* What the user can type into the search box and choose as position.
Searches == {<< >>, <<" ">>, <<"K">>, <<" ", "r", "B", " ">>, <<"a">>}
positions ==
    <<<<"A", "L", "L">>, <<"Q", "B">>, <<"R", "B">>, <<"W", "R">>, <<"T", "E">>>>

\* ------------------------------------------------- standings and rosters
\* The rows standings keeps.
MaxStandings == 12
\* The coaches of the roster view of a room, with their names; the position
\* of a name in NameOrder is its place in the collation of localeCompare.
NameOrder == <<"Al", "Bea", "Cy", "Di", "Ed", "Flo", "Gus", "Hal", "Ida", "Jo",
               "Kim", "Lu", "Mo">>
RosterCoaches ==
    << [coach_id |-> "s01", coach_name |-> "Al"],
       [coach_id |-> "s02", coach_name |-> "Al"],
       [coach_id |-> "s03", coach_name |-> "Bea"],
       [coach_id |-> "s04", coach_name |-> "Cy"],
       [coach_id |-> "s05", coach_name |-> "Di"],
       [coach_id |-> "s06", coach_name |-> "Ed"],
       [coach_id |-> "s07", coach_name |-> "Flo"],
       [coach_id |-> "s08", coach_name |-> "Gus"],
       [coach_id |-> "s09", coach_name |-> "Hal"],
       [coach_id |-> "s10", coach_name |-> "Ida"],
       [coach_id |-> "s11", coach_name |-> "Jo"],
       [coach_id |-> "s12", coach_name |-> "Kim"],
       [coach_id |-> "s13", coach_name |-> "Lu"],
       [coach_id |-> "s14", coach_name |-> "Mo"] >>
\* Bounds of the rows tried: up to MaxRows rows of the first SmallCoaches
\* coaches with 0..MaxPoints points each, and one row for each of the first
\* n coaches, LargeFrom <= n <= Len(RosterCoaches), in both orders.
MaxRows == 3
SmallCoaches == 3
MaxPoints == 1
LargeFrom == 12
PointPatterns == 4

VARIABLES
    draft_order,    \* room.draft_order
    picksTable,     \* the rows of the picks table of the room
    nextId,         \* the id the store gives the next inserted row
    picks,          \* picks[k]: the picks state of client k
    busyPlayerId,   \* busyPlayerId[k]
    calls,          \* bag of asynchronous calls in flight
    events,         \* events[k]: change notifications queued for client k
    alerted,        \* the alert() raised by the latest step, if any
    rOrder, rPick, rResult, \* input and output of the resolver
    rSlot,          \* round and pick in round computed for rPick
    rRound,         \* the coaches resolved for the picks of the round of rPick
    pages,          \* pages[v]: the state of draft-room page v
    store,          \* the picks table of all rooms and its next row id
    playerList,     \* players, picks, search, posFilter and the
                    \* availablePlayers of a draft-room page
    standingsPage,  \* rows and standings of StandingsClient
    rostersPage     \* rows and grouped of RostersPage

vars == <<draft_order, picksTable, nextId, picks, busyPlayerId, calls, events,
          alerted, rOrder, rPick, rResult, rSlot, rRound, pages, store,
          playerList, standingsPage, rostersPage>>
ledgerVars == <<draft_order, picksTable, nextId, picks, busyPlayerId, calls,
                events, alerted>>
resolverVars == <<rOrder, rPick, rResult, rSlot, rRound>>
roomVars == <<pages, store>>
viewVars == <<playerList, standingsPage, rostersPage>>

\* ------------------------------------------------------- pure functions
\* Math.ceil(a / b) on positive integers.
MathCeil(a, b) == IF a % b = 0 THEN a \div b ELSE (a \div b) + 1

C9_mut_getCoachIdForPick(overallPickNumber, draftOrder) ==
    LET n == Len(draftOrder) IN
    IF n = 0 THEN Null
    ELSE LET roundNumber == MathCeil(overallPickNumber, n)
             indexInRound0 == (overallPickNumber - 1) % n
             isReverse == roundNumber = 2 \/ (roundNumber >= 5 /\ roundNumber % 2 = 1)
             idx == IF isReverse THEN n - 1 - indexInRound0 ELSE indexInRound0
         IN IF idx + 1 \in DOMAIN draftOrder THEN draftOrder[idx + 1] ELSE Null

C11_mut_getCoachIdForPick(overallPickNumber, draftOrder) ==
    LET n == Len(draftOrder) IN
    IF n = 0 THEN "undefined"
    ELSE LET roundNumber == MathCeil(overallPickNumber, n)
             indexInRound0 == (overallPickNumber - 1) % n
             isReverse == \/ roundNumber = 2
                          \/ roundNumber = 3
                          \/ (roundNumber >= 5 /\ roundNumber % 2 = 1)
             idx == IF isReverse THEN n - 1 - indexInRound0 ELSE indexInRound0
         IN IF idx + 1 \in DOMAIN draftOrder THEN draftOrder[idx + 1] ELSE Null

C29_mut_getCoachIdForPick(overallPickNumber, draftOrder) ==
    LET n == Len(draftOrder) IN
    IF n = 0 THEN Null
    ELSE LET roundNumber == MathCeil(overallPickNumber, n)
             indexInRound0 == (overallPickNumber - 1) % n
             isReverse == \/ roundNumber = 2
                          \/ roundNumber = 3
                          \/ (roundNumber >= 5 /\ roundNumber % 2 = 1)
             idx == IF isReverse THEN n - indexInRound0 ELSE indexInRound0
         IN IF idx + 1 \in DOMAIN draftOrder THEN draftOrder[idx + 1] ELSE Null

C10_mut_getCoachIdForPick(overallPickNumber, draftOrder) ==
    LET n == Len(draftOrder) IN
    IF n = 0 THEN Null
    ELSE LET roundNumber == MathCeil(overallPickNumber, n)
             indexInRound0 == (overallPickNumber - 1) % n
             isReverse == roundNumber % 2 = 0
             idx == IF isReverse THEN n - 1 - indexInRound0 ELSE indexInRound0
         IN IF idx + 1 \in DOMAIN draftOrder THEN draftOrder[idx + 1] ELSE Null

\* Snake order with the third round reversed; draftOrder is the round-1 order.
getCoachIdForPick(overallPickNumber, draftOrder) ==
    LET n == Len(draftOrder) IN
    IF n = 0 THEN Null
    ELSE LET roundNumber == MathCeil(overallPickNumber, n)
             indexInRound0 == (overallPickNumber - 1) % n
             isReverse == \/ roundNumber = 2
                          \/ roundNumber = 3
                          \/ (roundNumber >= 5 /\ roundNumber % 2 = 1)
             idx == IF isReverse THEN n - 1 - indexInRound0 ELSE indexInRound0
         IN IF idx + 1 \in DOMAIN draftOrder THEN draftOrder[idx + 1] ELSE Null

C12_mut_roundAndPickInRound(overallPickNumber, nCoaches) ==
    [roundNumber |-> (overallPickNumber \div nCoaches) + 1,
     pickInRound |-> ((overallPickNumber - 1) % nCoaches) + 1]

roundAndPickInRound(overallPickNumber, nCoaches) ==
    [roundNumber |-> MathCeil(overallPickNumber, nCoaches),
     pickInRound |-> ((overallPickNumber - 1) % nCoaches) + 1]

\* The slot shown while no draft order is set.
NoSlot == [roundNumber |-> 0, pickInRound |-> 0]

\* nextSlot for the pick number and number of coaches given.
nextSlot(overallPickNumber, nCoaches) ==
    IF nCoaches = 0 THEN NoSlot
    ELSE roundAndPickInRound(overallPickNumber, nCoaches)

\* The coaches getCoachIdForPick resolves for the picks of the round that
\* holds overallPickNumber, in the order of the picks.
RoundPicks(overallPickNumber, draftOrder) ==
    LET n == Len(draftOrder) IN
    IF n = 0 THEN << >>
    ELSE LET r == roundAndPickInRound(overallPickNumber, n).roundNumber
         IN [i \in 1..n |-> getCoachIdForPick((r - 1) * n + i, draftOrder)]

\* --------------------------------------------------- derived client state
draftedPlayerIds(k) == {r.player_id : r \in picks[k]}
myPicks(k) == {r \in picks[k] : r.coach_id = coachOf[k]}
myTeamsUsed(k) == {nfl_team[r.player_id] : r \in myPicks(k)}
nextOverallPick(k) == Cardinality(picks[k]) + 1
onTheClockCoachId(k) ==
    IF Len(draft_order) = 0 THEN Null
    ELSE getCoachIdForPick(nextOverallPick(k), draft_order)
isMyTurn(k) == onTheClockCoachId(k) # Null /\ coachOf[k] = onTheClockCoachId(k)

C24_mut_upNextCoachId(k) ==
    IF Len(draft_order) = 0 THEN Null
    ELSE getCoachIdForPick(nextOverallPick(k), draft_order)

upNextCoachId(k) ==
    IF Len(draft_order) = 0 THEN Null
    ELSE getCoachIdForPick(nextOverallPick(k) + 1, draft_order)
C14_mut_isCommissioner(k) == coach_name[coachOf[k]] \in {"Rowland", "Bea"}

isCommissioner(k) == coach_name[coachOf[k]] = "Rowland"

\* ------------------------------------------------------------ the store
\* A row of the picks table. round holds the overall pick number. The store
\* assigns id and created_at in insertion order, so id also stands for
\* created_at.
Row(id, coach, round, player) ==
    [id |-> id, coach_id |-> coach, round |-> round, player_id |-> player]

\* .order("round", desc).order("created_at", desc).limit(1).maybeSingle()
LatestRow(S) ==
    CHOOSE r \in S : \A q \in S :
        q.round < r.round \/ (q.round = r.round /\ q.id <= r.id)
LatestId(S) == IF S = {} THEN 0 ELSE LatestRow(S).id

\* A change on the picks table queues one notification for every subscribed
\* client; the transport drops what exceeds its queue.
Notify(ev) == [k \in Clients |-> IF ev[k] < MaxEvents THEN ev[k] + 1 ELSE ev[k]]

\* An asynchronous call in flight: the client that made it, the next step
\* it waits for (pc) and the values its closure holds. Of a draftPlayer call:
\* player, round (overallPickNumber), tail (the id of the last pick of the
\* picks it was validated against), sub and len (nextId and the number of
\* rows of the table when it was submitted) and, once its insert is done,
\* target (the id of its row). Of an undoLastPick call: target and round
\* (latest.data) and, once its delete is done, tail (the id of the row the
\* delete removed, 0 if none), sub and len (nextId and the number of rows of
\* the table when the delete was executed). data is the answer of a select.
Call(kind, k, pc, player, round, tail, sub, len, target, data) ==
    [kind |-> kind, client |-> k, pc |-> pc, player |-> player, round |-> round,
     tail |-> tail, sub |-> sub, len |-> len, target |-> target, data |-> data]

\* alert(...): who saw it, in which operation, which failure it reports, for
\* which pick number.
Alert(k, op, msg, round) == [client |-> k, op |-> op, msg |-> msg, round |-> round]
NoAlert == Alert(Null, "none", "none", 0)

Finish(d) == calls (-) SetToBag({d})
Advance(d, e) == (calls (-) SetToBag({d})) (+) SetToBag({e})

\* ------------------------------------------------- the list of a draft page
\* The state of the players list of one page of room rA, before anything
\* is loaded.
NewList ==
    [players |-> << >>, picks |-> {}, search |-> << >>,
     posFilter |-> positions[1], available |-> << >>]

C32_mut_availablePlayers(players, pagePicks, search, posFilter) ==
    LET q == toLowerCase(trim(search))
        keep(p) ==
            /\ p.position \notin {<<"K">>}
            /\ p.id \notin {r.player_id : r \in pagePicks}
            /\ (posFilter = positions[1] \/ p.position = posFilter)
            /\ \/ q = << >>
               \/ includes(toLowerCase(p.player_name), q)
               \/ includes(toLowerCase(p.nfl_team), q)
               \/ includes(toLowerCase(p.position), q)
    IN  SelectSeq(players, keep)

\* availablePlayers, with draftedPlayerIds computed from the picks given.
availablePlayers(players, pagePicks, search, posFilter) ==
    LET q == toLowerCase(trim(search))
        keep(p) ==
            /\ p.position \notin {<<"K">>, <<"D", "S", "T">>}
            /\ p.id \notin {r.player_id : r \in pagePicks}
            /\ (posFilter = positions[1] \/ p.position = posFilter)
            /\ \/ q = << >>
               \/ includes(toLowerCase(p.player_name), q)
               \/ includes(toLowerCase(p.nfl_team), q)
               \/ includes(toLowerCase(p.position), q)
    IN  SelectSeq(players, keep)

\* The page renders again after every change of its state.
Rendered(l) ==
    [l EXCEPT !.available = availablePlayers(l.players, l.picks, l.search, l.posFilter)]

\* The standings and rosters pages before their rows are loaded.
ViewsIdle ==
    /\ playerList = NewList
    /\ standingsPage = [rows |-> << >>, standings |-> << >>]
    /\ rostersPage = [rows |-> << >>, grouped |-> << >>]

\* ------------------------------------------------------------ standings
\* a.localeCompare(b): negative, zero or positive.
localeCompare(a, b) ==
    (CHOOSE i \in 1..Len(NameOrder) : NameOrder[i] = a)
        - (CHOOSE i \in 1..Len(NameOrder) : NameOrder[i] = b)

\* b - a || c: c when the difference is zero.
OrElse(d, c) == IF d # 0 THEN d ELSE c

\* Array.prototype.sort with a comparator, cmp[i][j] being what the
\* comparator returns for s[i] and s[j]: the sort is stable, so an element
\* comes after those that compare lower and after those that compare equal
\* and stood before it.
sort(s, cmp) ==
    LET place(i) ==
            1 + Cardinality({j \in 1..Len(s) :
                    \/ cmp[j][i] < 0
                    \/ cmp[j][i] = 0 /\ j < i})
    IN  [k \in 1..Len(s) |-> s[CHOOSE i \in 1..Len(s) : place(i) = k]]

\* The comparators of the sorts: by points or total descending, then by
\* name ascending.
byPointsThenName(s) ==
    [i \in 1..Len(s) |-> [j \in 1..Len(s) |->
        OrElse(s[j].total_points - s[i].total_points,
               localeCompare(s[i].coach_name, s[j].coach_name))]]
byPointsThenPlayer(s) ==
    [i \in 1..Len(s) |-> [j \in 1..Len(s) |->
        OrElse(s[j].total_points - s[i].total_points,
               localeCompare(s[i].player_name, s[j].player_name))]]
byTotalThenName(s) ==
    [i \in 1..Len(s) |-> [j \in 1..Len(s) |->
        OrElse(s[j].total - s[i].total,
               localeCompare(s[i].coach_name, s[j].coach_name))]]

\* The Map of the standings memo after the loop over rows: its entries in
\* the order of insertion.
RECURSIVE totalsByCoach(_, _)
totalsByCoach(rows, map) ==
    IF rows = << >> THEN map
    ELSE LET r == Head(rows)
             m1 == IF \E i \in 1..Len(map) : map[i].coach_id = r.coach_id
                   THEN map
                   ELSE Append(map, [coach_id |-> r.coach_id,
                                     coach_name |-> r.coach_name, total |-> 0])
             m2 == [i \in 1..Len(m1) |->
                       IF m1[i].coach_id = r.coach_id
                       THEN [m1[i] EXCEPT !.total = @ + r.total_points]
                       ELSE m1[i]]
         IN  totalsByCoach(Tail(rows), m2)

slice(s, from, to) == SubSeq(s, from + 1, IF to < Len(s) THEN to ELSE Len(s))

C33_mut_standings(rows) ==
    LET map == totalsByCoach(rows, << >>)
        list == [i \in 1..Len(map) |->
                    [coach_id |-> map[i].coach_id, coach_name |-> map[i].coach_name,
                     total_points |-> map[i].total, rank |-> 0]]
        sorted == sort(list, [i \in 1..Len(list) |-> [j \in 1..Len(list) |->
                                 list[j].total_points - list[i].total_points]])
    IN  slice([i \in 1..Len(sorted) |-> [sorted[i] EXCEPT !.rank = i]],
              0, MaxStandings)

standings(rows) ==
    LET map == totalsByCoach(rows, << >>)
        list == [i \in 1..Len(map) |->
                    [coach_id |-> map[i].coach_id, coach_name |-> map[i].coach_name,
                     total_points |-> map[i].total, rank |-> 0]]
        sorted == sort(list, byPointsThenName(list))
    IN  slice([i \in 1..Len(sorted) |-> [sorted[i] EXCEPT !.rank = i]],
              0, MaxStandings)

\* -------------------------------------------------------------- rosters
\* The Map of the grouped memo after the loop over rows: its entries in the
\* order of insertion.
RECURSIVE playersByCoach(_, _)
playersByCoach(rows, map) ==
    IF rows = << >> THEN map
    ELSE LET r == Head(rows)
             m1 == IF \E i \in 1..Len(map) : map[i].coach_id = r.coach_id
                   THEN map
                   ELSE Append(map, [coach_id |-> r.coach_id,
                                     coach_name |-> r.coach_name,
                                     players |-> << >>, total |-> 0])
             m2 == [i \in 1..Len(m1) |->
                       IF m1[i].coach_id = r.coach_id
                       THEN [m1[i] EXCEPT !.players = Append(@, r),
                                          !.total = @ + r.total_points]
                       ELSE m1[i]]
         IN  playersByCoach(Tail(rows), m2)

C34_mut_grouped(rows) ==
    LET map == playersByCoach(rows, << >>)
        list == [i \in 1..Len(map) |->
                    [coach_id |-> map[i].coach_id, coach_name |-> map[i].coach_name,
                     total |-> map[i].total,
                     players |-> sort(map[i].players,
                                      byPointsThenPlayer(map[i].players))]]
    IN  sort(list, [i \in 1..Len(list) |-> [j \in 1..Len(list) |->
                       list[j].total - list[i].total]])

grouped(rows) ==
    LET map == playersByCoach(rows, << >>)
        list == [i \in 1..Len(map) |->
                    [coach_id |-> map[i].coach_id, coach_name |-> map[i].coach_name,
                     total |-> map[i].total,
                     players |-> sort(map[i].players,
                                      byPointsThenPlayer(map[i].players))]]
    IN  sort(list, byTotalThenName(list))

\* ---------------------------------------------------------------- Init
Init ==
    /\ draft_order \in Orders
    /\ picksTable = {}
    /\ nextId = 1
    /\ picks = [k \in Clients |-> {}]
    /\ busyPlayerId = [k \in Clients |-> Null]
    /\ calls = EmptyBag
    /\ events = [k \in Clients |-> 0]
    /\ alerted = NoAlert
    /\ rOrder = << >>
    /\ rPick = 0
    /\ rResult = Null
    /\ rSlot = NoSlot
    /\ rRound = << >>
    /\ pages = [v \in Visitors |-> NewPage("", "")]
    /\ store = EmptyStore
    /\ ViewsIdle

\* ------------------------------------------------------------ draftPlayer
C19_mut_eligibility(k, p) ==
    IF p \in draftedPlayerIds(k) THEN "AlreadyDrafted"
    ELSE IF nfl_team[p] \in myTeamsUsed(k) THEN "TeamConflict"
    ELSE "Eligible"

\* The two checks of draftPlayer on the player, in the order of the code:
\* one NFL team per coach, then the player not drafted yet.
eligibility(k, p) ==
    IF nfl_team[p] \in myTeamsUsed(k) THEN "TeamConflict"
    ELSE IF p \in draftedPlayerIds(k) THEN "AlreadyDrafted"
    ELSE "Eligible"

C5_mut_expected(k) == coachOf[k]

\* The coach the client expects on the clock, from its own picks state.
expected(k) == getCoachIdForPick(Cardinality(picks[k]) + 1, draft_order)

C18_mut_DraftPlayer(k, p) ==
    /\ busyPlayerId[k] # p
    /\ LET n == Cardinality(picks[k]) + 1 IN
       IF Len(draft_order) = 0
       THEN /\ alerted' = Alert(k, "draft", "InvalidConfiguration", 0)
            /\ UNCHANGED <<busyPlayerId, calls>>
       ELSE IF eligibility(k, p) # "Eligible"
       THEN /\ alerted' = Alert(k, "draft", eligibility(k, p), n)
            /\ busyPlayerId' = [busyPlayerId EXCEPT ![k] = Null]
            /\ UNCHANGED calls
       ELSE IF expected(k) # coachOf[k]
       THEN /\ alerted' = Alert(k, "draft", "OutOfTurn", n)
            /\ UNCHANGED <<busyPlayerId, calls>>
       ELSE /\ BagCardinality(calls) < MaxCalls
            /\ calls' = calls (+) SetToBag({Call("draft", k, "insert", p, n,
                                                 LatestId(picks[k]), nextId,
                                                 Cardinality(picksTable), 0, {})})
            /\ busyPlayerId' = [busyPlayerId EXCEPT ![k] = p]
            /\ alerted' = NoAlert
    /\ UNCHANGED <<draft_order, picksTable, nextId, picks, events, resolverVars, roomVars, viewVars>>

\* draftPlayer(player) up to the moment the insert request is sent. The
\* Draft button of a player is disabled while busyPlayerId is that player;
\* the other conditions of the button are checked again by draftPlayer.
DraftPlayer(k, p) ==
    /\ busyPlayerId[k] # p
    /\ LET n == Cardinality(picks[k]) + 1 IN
       IF Len(draft_order) = 0
       THEN /\ alerted' = Alert(k, "draft", "InvalidConfiguration", 0)
            /\ UNCHANGED <<busyPlayerId, calls>>
       ELSE IF expected(k) # coachOf[k]
       THEN /\ alerted' = Alert(k, "draft", "OutOfTurn", n)
            /\ UNCHANGED <<busyPlayerId, calls>>
       ELSE IF eligibility(k, p) # "Eligible"
       THEN /\ alerted' = Alert(k, "draft", eligibility(k, p), n)
            /\ busyPlayerId' = [busyPlayerId EXCEPT ![k] = Null]
            /\ UNCHANGED calls
       ELSE /\ BagCardinality(calls) < MaxCalls
            /\ calls' = calls (+) SetToBag({Call("draft", k, "insert", p, n,
                                                 LatestId(picks[k]), nextId,
                                                 Cardinality(picksTable), 0, {})})
            /\ busyPlayerId' = [busyPlayerId EXCEPT ![k] = p]
            /\ alerted' = NoAlert
    /\ UNCHANGED <<draft_order, picksTable, nextId, picks, events, resolverVars, roomVars, viewVars>>

\* The store executes the insert and the call goes on to loadPicks.
DraftInsertOk(d) ==
    /\ d.kind = "draft" /\ d.pc = "insert"
    /\ nextId <= MaxPicks
    /\ picksTable' = picksTable \cup {Row(nextId, coachOf[d.client], d.round, d.player)}
    /\ nextId' = nextId + 1
    /\ events' = Notify(events)
    /\ calls' = Advance(d, [d EXCEPT !.pc = "load_select", !.target = nextId])
    /\ alerted' = NoAlert
    /\ UNCHANGED <<draft_order, picks, busyPlayerId, resolverVars, roomVars, viewVars>>

\* The insert returns an error (or throws): alert, then the finally block.
DraftInsertError(d) ==
    /\ d.kind = "draft" /\ d.pc = "insert"
    /\ calls' = Finish(d)
    /\ busyPlayerId' = [busyPlayerId EXCEPT ![d.client] = Null]
    /\ alerted' = Alert(d.client, "draft", "StoreError", d.round)
    /\ UNCHANGED <<draft_order, picksTable, nextId, picks, events, resolverVars, roomVars, viewVars>>

\* -------------------------------------------------------------- loadPicks
\* The store answers the select of loadPicks with the rows it holds now.
LoadSelectOk(d) ==
    /\ d.pc = "load_select"
    /\ calls' = Advance(d, [d EXCEPT !.pc = "load_set", !.data = picksTable])
    /\ alerted' = NoAlert
    /\ UNCHANGED <<draft_order, picksTable, nextId, picks, busyPlayerId, events,
                   resolverVars, roomVars, viewVars>>

C35_mut_LoadSelectError(d) ==
    /\ d.pc = "load_select"
    /\ calls' = Finish(d)
    /\ alerted' = NoAlert
    /\ UNCHANGED <<draft_order, picksTable, nextId, picks, busyPlayerId, events,
                   resolverVars, roomVars, viewVars>>

\* The select fails: loadPicks sets nothing and reports nothing; a
\* draftPlayer that awaited it runs its finally block.
LoadSelectError(d) ==
    /\ d.pc = "load_select"
    /\ calls' = Finish(d)
    /\ busyPlayerId' = IF d.kind = "draft"
                       THEN [busyPlayerId EXCEPT ![d.client] = Null]
                       ELSE busyPlayerId
    /\ alerted' = NoAlert
    /\ UNCHANGED <<draft_order, picksTable, nextId, picks, events, resolverVars, roomVars, viewVars>>

\* The answer reaches the client: setPicks(res.data), and the caller ends.
LoadSet(d) ==
    /\ d.pc = "load_set"
    /\ picks' = [picks EXCEPT ![d.client] = d.data]
    /\ calls' = Finish(d)
    /\ busyPlayerId' = IF d.kind = "draft"
                       THEN [busyPlayerId EXCEPT ![d.client] = Null]
                       ELSE busyPlayerId
    /\ alerted' = NoAlert
    /\ UNCHANGED <<draft_order, picksTable, nextId, events, resolverVars, roomVars, viewVars>>

\* ------------------------------------------------------------ undoLastPick
\* undoLastPick up to the moment the select of the latest pick is sent; ok
\* is the answer to confirm().
UndoLastPick(k) ==
    /\ IF ~isCommissioner(k)
       THEN /\ alerted' = Alert(k, "undo", "Forbidden", 0)
            /\ UNCHANGED calls
       ELSE \E ok \in BOOLEAN :
            /\ alerted' = NoAlert
            /\ IF ok
               THEN /\ BagCardinality(calls) < MaxCalls
                    /\ calls' = calls (+) SetToBag({Call("undo", k, "select", Null, 0,
                                                         0, 0, 0, 0, {})})
               ELSE UNCHANGED calls
    /\ UNCHANGED <<draft_order, picksTable, nextId, picks, busyPlayerId, events,
                   resolverVars, roomVars, viewVars>>

\* The store answers the select of the latest pick.
UndoSelect(d) ==
    /\ d.kind = "undo" /\ d.pc = "select"
    /\ IF picksTable = {}
       THEN /\ calls' = Finish(d)
            /\ alerted' = Alert(d.client, "undo", "EmptyLedger", 0)
       ELSE /\ calls' = Advance(d, [d EXCEPT !.pc = "delete",
                                            !.target = LatestRow(picksTable).id,
                                            !.round = LatestRow(picksTable).round])
            /\ alerted' = NoAlert
    /\ UNCHANGED <<draft_order, picksTable, nextId, picks, busyPlayerId, events,
                   resolverVars, roomVars, viewVars>>

\* The store deletes the row with the id read before (no row, when it is
\* gone already: the delete still succeeds) and the call goes on to loadPicks.
UndoDelete(d) ==
    /\ d.kind = "undo" /\ d.pc = "delete"
    /\ picksTable' = {r \in picksTable : r.id # d.target}
    /\ events' = IF picksTable' # picksTable THEN Notify(events) ELSE events
    /\ calls' = Advance(d, [d EXCEPT !.pc = "load_select",
                                      !.tail = IF picksTable' # picksTable
                                               THEN d.target ELSE 0,
                                      !.sub = nextId,
                                      !.len = Cardinality(picksTable)])
    /\ alerted' = NoAlert
    /\ UNCHANGED <<draft_order, nextId, picks, busyPlayerId, resolverVars, roomVars, viewVars>>

C20_mut_UndoError(d) ==
    /\ d.kind = "undo" /\ d.pc \in {"select", "delete"}
    /\ calls' = Finish(d)
    /\ alerted' = Alert(d.client, "undo", "StoreError", d.round)
    /\ picksTable' = IF d.pc = "delete"
                     THEN {r \in picksTable : r.id # d.target}
                     ELSE picksTable
    /\ UNCHANGED <<draft_order, nextId, picks, busyPlayerId, events,
                   resolverVars, roomVars, viewVars>>

\* The select or the delete of undoLastPick returns an error (or throws).
UndoError(d) ==
    /\ d.kind = "undo" /\ d.pc \in {"select", "delete"}
    /\ calls' = Finish(d)
    /\ alerted' = Alert(d.client, "undo", "StoreError", d.round)
    /\ UNCHANGED <<draft_order, picksTable, nextId, picks, busyPlayerId, events,
                   resolverVars, roomVars, viewVars>>

\* ---------------------------------------------------------------- realtime
C25_mut_DeliverEvent(k) ==
    /\ events[k] > 0
    /\ picks' = [picks EXCEPT ![k] = IF Cardinality(picksTable) > Cardinality(picks[k])
                                     THEN picks[k] \cup {LatestRow(picksTable)}
                                     ELSE IF picks[k] = {} THEN picks[k]
                                     ELSE picks[k] \ {LatestRow(picks[k])}]
    /\ \E dup \in BOOLEAN :
         events' = IF dup THEN events ELSE [events EXCEPT ![k] = events[k] - 1]
    /\ alerted' = NoAlert
    /\ UNCHANGED <<draft_order, picksTable, nextId, calls, busyPlayerId, resolverVars, roomVars, viewVars>>

\* A notification reaches client k, whose handler calls loadPicks; the
\* transport may deliver the same notification again later (dup).
DeliverEvent(k) ==
    /\ events[k] > 0
    /\ BagCardinality(calls) < MaxCalls
    /\ calls' = calls (+) SetToBag({Call("load", k, "load_select", Null, 0, 0, 0, 0, 0,
                                         {})})
    /\ \E dup \in BOOLEAN :
         events' = IF dup THEN events ELSE [events EXCEPT ![k] = events[k] - 1]
    /\ alerted' = NoAlert
    /\ UNCHANGED <<draft_order, picksTable, nextId, picks, busyPlayerId, resolverVars, roomVars, viewVars>>

\* The transport loses a notification.
LoseEvent(k) ==
    /\ events[k] > 0
    /\ events' = [events EXCEPT ![k] = events[k] - 1]
    /\ alerted' = NoAlert
    /\ UNCHANGED <<draft_order, picksTable, nextId, picks, busyPlayerId, calls,
                   resolverVars, roomVars, viewVars>>

Next ==
    \/ \E k \in Clients, p \in Players : DraftPlayer(k, p)
    \/ \E d \in BagToSet(calls) : DraftInsertOk(d)
    \/ \E d \in BagToSet(calls) : DraftInsertError(d)
    \/ \E d \in BagToSet(calls) : LoadSelectOk(d)
    \/ \E d \in BagToSet(calls) : LoadSelectError(d)
    \/ \E d \in BagToSet(calls) : LoadSet(d)
    \/ \E k \in Clients : UndoLastPick(k)
    \/ \E d \in BagToSet(calls) : UndoSelect(d)
    \/ \E d \in BagToSet(calls) : UndoDelete(d)
    \/ \E d \in BagToSet(calls) : UndoError(d)
    \/ \E k \in Clients : DeliverEvent(k)
    \/ \E k \in Clients : LoseEvent(k)

Spec == Init /\ [][Next]_vars

\* ------------------------------------------------- the reliable transport
\* The room when no notification is lost and no select of loadPicks fails:
\* every notification is delivered in the end and every load that was
\* started gets its answer and sets it. What the users do (draftPlayer,
\* undoLastPick) and when the store executes an insert or a delete is under
\* no fairness condition.
ReliableNext ==
    \/ \E k \in Clients, p \in Players : DraftPlayer(k, p)
    \/ \E d \in BagToSet(calls) : DraftInsertOk(d)
    \/ \E d \in BagToSet(calls) : DraftInsertError(d)
    \/ \E d \in BagToSet(calls) : LoadSelectOk(d)
    \/ \E d \in BagToSet(calls) : LoadSet(d)
    \/ \E k \in Clients : UndoLastPick(k)
    \/ \E d \in BagToSet(calls) : UndoSelect(d)
    \/ \E d \in BagToSet(calls) : UndoDelete(d)
    \/ \E d \in BagToSet(calls) : UndoError(d)
    \/ \E k \in Clients : DeliverEvent(k)

\* The last delivery of a notification to client k.
Consume(k) == DeliverEvent(k) /\ events'[k] = events[k] - 1

ReliableSpec ==
    /\ Init
    /\ [][ReliableNext]_vars
    /\ \A k \in Clients : WF_vars(Consume(k))
    /\ WF_vars(\E d \in BagToSet(calls) : LoadSelectOk(d))
    /\ WF_vars(\E d \in BagToSet(calls) : LoadSet(d))

\* ------------------------------------------------- calls that come to an end
\* A step of a draftPlayer call of client k that is in flight: the store
\* answers its insert or the select of its loadPicks, or the answer of the
\* select reaches the client.
DraftProgress(k) ==
    \E d \in BagToSet(calls) :
        /\ d.kind = "draft" /\ d.client = k
        /\ \/ DraftInsertOk(d)
           \/ DraftInsertError(d)
           \/ LoadSelectOk(d)
           \/ LoadSelectError(d)
           \/ LoadSet(d)

\* The room while no pick is undone and no notification is lost, when every
\* request of a draftPlayer call is answered in the end, with a result or
\* with an error: the promise the call awaits settles and the call goes on.
SettlingNext ==
    \/ \E k \in Clients, p \in Players : DraftPlayer(k, p)
    \/ \E d \in BagToSet(calls) : DraftInsertOk(d)
    \/ \E d \in BagToSet(calls) : DraftInsertError(d)
    \/ \E d \in BagToSet(calls) : LoadSelectOk(d)
    \/ \E d \in BagToSet(calls) : LoadSelectError(d)
    \/ \E d \in BagToSet(calls) : LoadSet(d)
    \/ \E k \in Clients : DeliverEvent(k)

SettlingSpec ==
    /\ Init
    /\ [][SettlingNext]_vars
    /\ \A k \in Clients : WF_vars(DraftProgress(k))

\* ------------------------------------------------- the resolver on its own
ResolverInit ==
    /\ draft_order = << >>
    /\ picksTable = {}
    /\ nextId = 1
    /\ picks = [k \in Clients |-> {}]
    /\ busyPlayerId = [k \in Clients |-> Null]
    /\ calls = EmptyBag
    /\ events = [k \in Clients |-> 0]
    /\ alerted = NoAlert
    /\ rOrder \in ResolverOrders
    /\ rPick = 0
    /\ rResult = Null
    /\ rSlot = NoSlot
    /\ rRound = << >>
    /\ pages = [v \in Visitors |-> NewPage("", "")]
    /\ store = EmptyStore
    /\ ViewsIdle

Resolve ==
    /\ \E p \in 1..MaxPickNumber :
         /\ rPick' = p
         /\ rResult' = getCoachIdForPick(p, rOrder)
         /\ rSlot' = nextSlot(p, Len(rOrder))
         /\ rRound' = RoundPicks(p, rOrder)
    /\ UNCHANGED <<rOrder, ledgerVars, roomVars, viewVars>>

ResolverNext == Resolve

ResolverSpec == ResolverInit /\ [][ResolverNext]_vars

\* ------------------------------------------------- several rooms, one store
\* The pages of two rooms on one picks table. Every call of a page is one
\* step here (its checks, its store requests and its reload); how the
\* requests of concurrent calls interleave is what Spec explores.

\* .maybeSingle(): the data is the row when exactly one matches and null
\* otherwise; the answer is the set of the data, empty for null.
maybeSingle(S) == IF Cardinality(S) = 1 THEN S ELSE {}

\* rooms, .eq("room_code", roomCode)
roomRes(roomCode) == maybeSingle({r \in RoomsTable : r.room_code = roomCode})

C28_mut_coachRes(roomId, token) ==
    maybeSingle({c \in CoachesTable : c.invite_token = token})

\* coaches, .eq("room_id", roomRes.data.id).eq("invite_token", token)
coachRes(roomId, token) ==
    maybeSingle({c \in CoachesTable : c.room_id = roomId /\ c.invite_token = token})

\* picks, .eq("room_id", roomId): what loadPicks selects.
C27_mut_roomPicks(roomId) == store.picks

roomPicks(roomId) == {r \in store.picks : r.room_id = roomId}

\* A row of the picks table of all rooms; by is the page that inserted it.
RoomRow(id, roomId, coach, round, player, v) ==
    [id |-> id, room_id |-> roomId, coach_id |-> coach, round |-> round,
     player_id |-> player, by |-> v]

\* A change of a row of room roomId starts a loadPicks on every page that
\* is subscribed with the filter room_id=eq.roomId; page v reloads itself.
Reloaded(pg, v, roomId, rows) ==
    [w \in Visitors |->
        IF w = v THEN [pg[w] EXCEPT !.picks = {r \in rows : r.room_id = roomId}]
        ELSE IF pg[w].status = "ok" /\ pg[w].room = roomId
             THEN [pg[w] EXCEPT !.pending = 1]
             ELSE pg[w]]

\* The validate effect: room by code, coach by room and token.
Validate(v) ==
    /\ pages[v].status = "loading"
    /\ LET pg == pages[v]
           rooms == roomRes(pg.roomCode)
           coaches == UNION {coachRes(r.id, pg.token) : r \in rooms}
       IN pages' = [pages EXCEPT ![v] =
              IF pg.roomCode = "" \/ pg.token = "" \/ rooms = {} \/ coaches = {}
              THEN [pg EXCEPT !.status = "error"]
              ELSE [pg EXCEPT !.status = "ok",
                              !.room = (CHOOSE r \in rooms : TRUE).id,
                              !.coach = (CHOOSE c \in coaches : TRUE).id,
                              !.pending = 1]]
    /\ UNCHANGED <<store, ledgerVars, resolverVars, viewVars>>

\* A select of the validate effect throws.
ValidateError(v) ==
    /\ pages[v].status = "loading"
    /\ pages' = [pages EXCEPT ![v].status = "error"]
    /\ UNCHANGED <<store, ledgerVars, resolverVars, viewVars>>

\* loadPicks of a page (initial load or realtime handler).
PageLoadPicks(v) ==
    /\ pages[v].status = "ok" /\ pages[v].pending > 0
    /\ pages' = [pages EXCEPT ![v].picks = roomPicks(pages[v].room),
                              ![v].pending = 0]
    /\ UNCHANGED <<store, ledgerVars, resolverVars, viewVars>>

\* draftPlayer of a page for a player of its players list, when it passes
\* the checks on the picks the page holds: insert, then loadPicks.
RoomDraftPlayer(v, p) ==
    LET pg == pages[v]
        order == (CHOOSE r \in RoomsTable : r.id = pg.room).draft_order
        n == Cardinality(pg.picks) + 1
        mine == {r \in pg.picks : r.coach_id = pg.coach}
        team(q) == (CHOOSE x \in PlayersTable : x.id = q).nfl_team
        row == RoomRow(store.nextId, pg.room, pg.coach, n, p.id, v)
    IN /\ pg.status = "ok"
       /\ p.room_id = pg.room
       /\ Len(order) # 0
       /\ getCoachIdForPick(n, order) = pg.coach
       /\ p.nfl_team \notin {team(r.player_id) : r \in mine}
       /\ p.id \notin {r.player_id : r \in pg.picks}
       /\ store.nextId <= MaxRoomPicks
       /\ store' = [picks |-> store.picks \cup {row}, nextId |-> store.nextId + 1]
       /\ pages' = Reloaded(pages, v, pg.room, store.picks \cup {row})
       /\ UNCHANGED <<ledgerVars, resolverVars, viewVars>>

\* undoLastPick of the commissioner of a room that has picks: select the
\* latest pick of the room, delete it by its id, then loadPicks.
RoomUndoLastPick(v) ==
    LET pg == pages[v]
        coach == CHOOSE c \in CoachesTable : c.id = pg.coach
    IN /\ pg.status = "ok"
       /\ coach.coach_name = "Rowland"
       /\ roomPicks(pg.room) # {}
       /\ LET rows == {r \in store.picks : r.id # LatestRow(roomPicks(pg.room)).id}
          IN /\ store' = [store EXCEPT !.picks = rows]
             /\ pages' = Reloaded(pages, v, pg.room, rows)
       /\ UNCHANGED <<ledgerVars, resolverVars, viewVars>>

RoomsInit ==
    /\ draft_order = << >>
    /\ picksTable = {}
    /\ nextId = 1
    /\ picks = [k \in Clients |-> {}]
    /\ busyPlayerId = [k \in Clients |-> Null]
    /\ calls = EmptyBag
    /\ events = [k \in Clients |-> 0]
    /\ alerted = NoAlert
    /\ rOrder = << >>
    /\ rPick = 0
    /\ rResult = Null
    /\ rSlot = NoSlot
    /\ rRound = << >>
    /\ pages \in [Visitors -> {NewPage(c, t) : c \in RoomCodes, t \in Tokens}]
    /\ store = EmptyStore
    /\ ViewsIdle

RoomsNext ==
    \/ \E v \in Visitors : Validate(v)
    \/ \E v \in Visitors : ValidateError(v)
    \/ \E v \in Visitors : PageLoadPicks(v)
    \/ \E v \in Visitors, p \in PlayersTable : RoomDraftPlayer(v, p)
    \/ \E v \in Visitors : RoomUndoLastPick(v)

RoomsSpec == RoomsInit /\ [][RoomsNext]_vars

\* ------------------------------------------------- the players list on its own
\* One page of room rA: its players and picks are loaded, the user types
\* into the search box and chooses a position, and the list is rendered
\* again after each change.
\* No draft room, no resolver call and no page of several rooms.
OthersIdle ==
    /\ draft_order = << >>
    /\ picksTable = {}
    /\ nextId = 1
    /\ picks = [k \in Clients |-> {}]
    /\ busyPlayerId = [k \in Clients |-> Null]
    /\ calls = EmptyBag
    /\ events = [k \in Clients |-> 0]
    /\ alerted = NoAlert
    /\ rOrder = << >>
    /\ rPick = 0
    /\ rResult = Null
    /\ rSlot = NoSlot
    /\ rRound = << >>
    /\ pages = [v \in Visitors |-> NewPage("", "")]
    /\ store = EmptyStore

ListInit ==
    /\ OthersIdle
    /\ ViewsIdle

ListLoadPlayers ==
    /\ playerList' = Rendered([playerList EXCEPT
                  !.players = SelectSeq(PlayersByPpg, LAMBDA p : p.room_id = "rA")])
    /\ UNCHANGED <<ledgerVars, resolverVars, roomVars, standingsPage, rostersPage>>

\* setPicks with the answer of a loadPicks: the picks of some players, in
\* the catalog loaded or not.
ListLoadPicks ==
    /\ \E D \in SUBSET ListPlayerIds :
         playerList' = Rendered([playerList EXCEPT
                    !.picks = {Row(i, "cA", i, PlayersByPpg[i].id) :
                                 i \in {j \in 1..Len(PlayersByPpg) :
                                          PlayersByPpg[j].id \in D}}])
    /\ UNCHANGED <<ledgerVars, resolverVars, roomVars, standingsPage, rostersPage>>

ListSetSearch ==
    /\ \E q \in Searches : playerList' = Rendered([playerList EXCEPT !.search = q])
    /\ UNCHANGED <<ledgerVars, resolverVars, roomVars, standingsPage, rostersPage>>

ListSetPosFilter ==
    /\ \E i \in 1..Len(positions) :
         playerList' = Rendered([playerList EXCEPT !.posFilter = positions[i]])
    /\ UNCHANGED <<ledgerVars, resolverVars, roomVars, standingsPage, rostersPage>>

ListNext ==
    \/ ListLoadPlayers
    \/ ListLoadPicks
    \/ ListSetSearch
    \/ ListSetPosFilter

ListSpec == ListInit /\ [][ListNext]_vars

\* ------------------------------------------------- the standings on their own
\* A row of the roster view as the standings page keeps it.
StandingsRow(c, points) ==
    [coach_id |-> RosterCoaches[c].coach_id,
     coach_name |-> RosterCoaches[c].coach_name, total_points |-> points]

\* The answers of the roster view tried: every list of up to MaxRows rows of
\* the first coaches, and lists with one row for each of twelve and more
\* coaches and a second row for the coach of the first row.
StandingsInputs ==
    UNION {[1..n -> {StandingsRow(c, x) : c \in 1..SmallCoaches, x \in 0..MaxPoints}] :
             n \in 0..MaxRows}
    \cup {[i \in 1..(n + 1) |->
               IF i <= n
               THEN StandingsRow(IF up THEN i ELSE n + 1 - i, (i * k) % PointPatterns)
               ELSE StandingsRow(IF up THEN 1 ELSE n, 1)] :
             n \in LargeFrom..Len(RosterCoaches), k \in 0..PointPatterns,
             up \in BOOLEAN}

\* load() of the standings page sets rows and the page computes standings.
StandingsLoad ==
    /\ \E in \in StandingsInputs :
         standingsPage' = [rows |-> in, standings |-> standings(in)]
    /\ UNCHANGED <<ledgerVars, resolverVars, roomVars, playerList, rostersPage>>

StandingsNext == StandingsLoad

StandingsSpec == ListInit /\ [][StandingsNext]_vars

\* ------------------------------------------------- the rosters on their own
\* A row of the roster view as the rosters page keeps it: row i of an answer
\* is the row of player i, and the later players come first by name.
RosterRow(c, points, i) ==
    [coach_id |-> RosterCoaches[c].coach_id,
     coach_name |-> RosterCoaches[c].coach_name,
     player_id |-> i, player_name |-> NameOrder[MaxRows + 1 - i],
     total_points |-> points]

\* The answers of the roster view tried: every list of up to MaxRows rows of
\* the first coaches.
RosterInputs ==
    UNION {{[i \in 1..n |-> RosterRow(f[i][1], f[i][2], i)] :
              f \in [1..n -> (1..SmallCoaches) \X (0..MaxPoints)]} :
             n \in 0..MaxRows}

\* load() of the rosters page sets rows and the page computes grouped.
RostersLoad ==
    /\ \E in \in RosterInputs :
         rostersPage' = [rows |-> in, grouped |-> grouped(in)]
    /\ UNCHANGED <<ledgerVars, resolverVars, roomVars, playerList, standingsPage>>

RostersNext == RostersLoad

RostersSpec == ListInit /\ [][RostersNext]_vars

\* =================================================================== claims
DraftCalls == {d \in BagToSet(calls) : d.kind = "draft"}

\* C1: the stored sequence numbers (the round column) of the room are
\* exactly 1..length of the ledger: no gap and no duplicate.
C1_SequenceContiguity ==
    {r.round : r \in picksTable} = 1..Cardinality(picksTable)

\* C2: no candidate (player_id) appears in more than one pick of the ledger.
C2_UniqueCandidates ==
    \A r1, r2 \in picksTable : r1.player_id = r2.player_id => r1 = r2

\* C3: no participant holds two picks whose candidates have the same
\* affiliation (nfl_team).
C3_OnePickPerTeam ==
    \A r1, r2 \in picksTable :
        (r1.coach_id = r2.coach_id /\ nfl_team[r1.player_id] = nfl_team[r2.player_id])
            => r1 = r2

\* C4: a pick is committed only for the participant that is on the clock for
\* the length the ledger has at the moment of the commit, so that the pick
\* numbered k belongs to the participant resolved for k.
C4_CommitOnlyOnClock ==
    [][\A r \in picksTable' \ picksTable :
          /\ r.coach_id = getCoachIdForPick(Cardinality(picksTable) + 1, draft_order)
          /\ r.coach_id = getCoachIdForPick(r.round, draft_order)]_vars

\* C5: of the submissions that different participants make for the same next
\* pick number, only those of the participant resolved for that number go on
\* to the insert and commit; every other participant is answered OutOfTurn,
\* and nobody else is: the ledger gets picks with that number from one
\* participant only.
C5_RaceDifferentParticipants ==
    /\ \A d \in DraftCalls :
          coachOf[d.client] = getCoachIdForPick(d.round, draft_order)
    /\ \A r \in picksTable : r.coach_id = getCoachIdForPick(r.round, draft_order)
    /\ (alerted.op = "draft" /\ alerted.round > 0) =>
          (alerted.msg = "OutOfTurn"
             <=> coachOf[alerted.client] # getCoachIdForPick(alerted.round, draft_order))

\* A participant is answered OutOfTurn for the pick number for which the
\* submission of another participant is in flight.
C5_Witness ==
    /\ alerted.op = "draft" /\ alerted.msg = "OutOfTurn"
    /\ \E d \in DraftCalls :
          /\ d.pc = "insert"
          /\ d.round = alerted.round
          /\ coachOf[d.client] # coachOf[alerted.client]

\* C6: of the simultaneous submissions of the participant on the clock for
\* distinct candidates and one pick number (each submitted before the insert
\* of the other was done), at most one commits.
C6_OneCommitPerSlot ==
    \A d1, d2 \in DraftCalls :
        ~ /\ d1.client = d2.client
          /\ d1.player # d2.player
          /\ d1.round = d2.round
          /\ coachOf[d1.client] = getCoachIdForPick(d1.len + 1, draft_order)
          /\ coachOf[d2.client] = getCoachIdForPick(d2.len + 1, draft_order)
          /\ d1.pc # "insert" /\ d2.pc # "insert"
          /\ d1.sub <= d2.target /\ d2.sub <= d1.target

\* C7: an undo and an append in flight do not interleave: the row an undo
\* deletes is the tail of the ledger at the moment of the delete, and no
\* append that was validated and numbered against that tail is waiting for
\* its insert.
C7_UndoExcludesAppend ==
    [][\A r \in picksTable \ picksTable' :
          /\ r = LatestRow(picksTable)
          /\ \A d \in DraftCalls : ~(d.pc = "insert" /\ d.tail = r.id)]_vars

\* C8: the ledger invariants hold in every reachable state, also when the
\* picks state of a client is stale because notifications were lost,
\* duplicated or late: contiguous numbers, unique candidates, one candidate
\* per affiliation and participant, each pick by the participant of its number.
C8_LedgerInvariants ==
    /\ C1_SequenceContiguity
    /\ C2_UniqueCandidates
    /\ C3_OnePickPerTeam
    /\ \A r \in picksTable : r.coach_id = getCoachIdForPick(r.round, draft_order)

\* The resolver as the specification states it: the round is the r with
\* (r-1)*N < pickNumber <= r*N, the index in the round the remainder of
\* pickNumber-1 by N.
StatedRound(p, n) == CHOOSE r \in 1..p : (r - 1) * n < p /\ p <= r * n
StatedIndex0(p, n) == CHOOSE m \in 0..(n - 1) : \E q \in 0..p : p - 1 = q * n + m
StatedReverse(r) == r \in {2, 3} \cup {2 * i + 1 : i \in 2..MaxPickNumber}
StatedIndex(p, n) ==
    IF StatedReverse(StatedRound(p, n)) THEN n - 1 - StatedIndex0(p, n)
    ELSE StatedIndex0(p, n)

\* C9: for N >= 1 and pickNumber >= 1 getCoachIdForPick returns order[index]
\* (0-based), with index = N-1-indexInRound0 in rounds 2, 3 and the odd
\* rounds from 5 on, and indexInRound0 in the other rounds.
C9_ResolverFormula ==
    (rPick >= 1 /\ Len(rOrder) >= 1) => rResult = rOrder[StatedIndex(rPick, Len(rOrder)) + 1]

\* A pick of an odd round >= 5 of an order of several participants, resolved
\* in reverse.
C9_Witness ==
    /\ rPick >= 1 /\ Len(rOrder) >= 2
    /\ StatedRound(rPick, Len(rOrder)) >= 5
    /\ StatedRound(rPick, Len(rOrder)) % 2 = 1
    /\ rResult = rOrder[Len(rOrder) - StatedIndex0(rPick, Len(rOrder))]
    /\ rResult # rOrder[StatedIndex0(rPick, Len(rOrder)) + 1]

WorkedSequence ==
    <<"A", "B", "C", "D",  "D", "C", "B", "A",  "D", "C", "B", "A",
      "A", "B", "C", "D",  "D", "C", "B", "A">>

\* C10: with order [A,B,C,D] the picks 1..20 are resolved to A,B,C,D,
\* D,C,B,A, D,C,B,A, A,B,C,D, D,C,B,A.
C10_WorkedSequence ==
    (rOrder = <<"A", "B", "C", "D">> /\ rPick \in 1..Len(WorkedSequence))
        => rResult = WorkedSequence[rPick]

\* Pick 9 (round 3, reversed as round 2 is) of [A,B,C,D] resolved to D.
C10_Witness ==
    rOrder = <<"A", "B", "C", "D">> /\ rPick = 9 /\ rResult = "D"

\* C11 as stated: with the empty order (N = 0) getCoachIdForPick fails with
\* the InvalidConfiguration error outcome for every pick number.
C11_EmptyOrderFails ==
    (rPick >= 1 /\ Len(rOrder) = 0) => rResult = "InvalidConfiguration"

\* C11: with the empty order (N = 0) getCoachIdForPick returns null for
\* every pick number: no participant id and no error outcome.
C11_EmptyOrderNull ==
    (rPick >= 1 /\ Len(rOrder) = 0)
        => (rResult = Null /\ rResult \notin ResolverIds \cup Coaches)

\* The resolver applied to the empty order.
C11_Witness ==
    rPick >= 1 /\ rOrder = << >> /\ rResult = Null

\* C12: for N >= 1 roundAndPickInRound(pickNumber, N) returns
\* round = ceil(pickNumber / N) and pickInRound = ((pickNumber-1) mod N) + 1,
\* so that 1 <= pickInRound <= N and pickNumber = (round-1)*N + pickInRound.
C12_RoundAndPickInRound ==
    (rPick >= 1 /\ Len(rOrder) >= 1) =>
        LET n == Len(rOrder) IN
        /\ rSlot.roundNumber = StatedRound(rPick, n)
        /\ rSlot.pickInRound = StatedIndex0(rPick, n) + 1
        /\ 1 <= rSlot.pickInRound /\ rSlot.pickInRound <= n
        /\ rPick = (rSlot.roundNumber - 1) * n + rSlot.pickInRound

\* The last pick of a round of several participants: pickInRound = N and
\* the pick number a multiple of N.
C12_Witness ==
    /\ rPick >= 1 /\ Len(rOrder) >= 2
    /\ rSlot.pickInRound = Len(rOrder)
    /\ rSlot.roundNumber >= 2
    /\ rPick = rSlot.roundNumber * Len(rOrder)

UndoCalls == {d \in BagToSet(calls) : d.kind = "undo"}

\* C14: undoLastPick by a coach who is not the commissioner always fails
\* with Forbidden, whatever the ledger holds (also when it is empty: Forbidden
\* comes before EmptyLedger), sends nothing to the store and leaves the
\* ledger unchanged.
C14_NonCommissionerForbidden ==
    [][\A k \in Clients :
          (coach_name[coachOf[k]] # "Rowland" /\ UndoLastPick(k)) =>
              /\ alerted' = Alert(k, "undo", "Forbidden", 0)
              /\ picksTable' = picksTable
              /\ calls' = calls]_vars

\* A coach who is not the commissioner is answered Forbidden on the empty
\* ledger.
C14_Witness ==
    /\ alerted.op = "undo" /\ alerted.msg = "Forbidden"
    /\ coach_name[coachOf[alerted.client]] # "Rowland"
    /\ picksTable = {}

\* C15: an undoLastPick of the commissioner fails with EmptyLedger and
\* changes nothing when the ledger is empty; otherwise its removal takes
\* away exactly the pick that has the maximum sequence number at the moment
\* of the removal, and no other.
C15_UndoRemovesMaximum ==
    [][/\ \A d \in UndoCalls :
             (UndoSelect(d) /\ picksTable = {}) =>
                 /\ alerted' = Alert(d.client, "undo", "EmptyLedger", 0)
                 /\ picksTable' = picksTable
       /\ \A d \in UndoCalls :
             UndoDelete(d) =>
                 /\ picksTable # {}
                 /\ picksTable' = picksTable \ {LatestRow(picksTable)}]_vars

\* The coach on the clock for the ledger as the store holds it, and the
\* candidates that coach may pick by the rows the store holds.
LedgerOnClock == getCoachIdForPick(Cardinality(picksTable) + 1, draft_order)
LedgerEligible(c, p) ==
    /\ \A r \in picksTable : r.player_id # p
    /\ \A r \in picksTable : r.coach_id = c => nfl_team[r.player_id] # nfl_team[p]

\* C16: after an undoLastPick of the commissioner has removed a pick, and
\* before anything else changes the ledger, a draftPlayer of the coach then
\* on the clock for a candidate that coach may pick is accepted, and its
\* commit brings the ledger back to the length it had before the undo, with
\* a latest pick that is not the pick removed.
C16_UndoThenDraft ==
    [][\A u \in UndoCalls :
          (/\ u.pc \in {"load_select", "load_set"}
           /\ u.tail # 0
           /\ nextId = u.sub
           /\ Cardinality(picksTable) = u.len - 1) =>
              /\ \A k \in Clients, p \in Players :
                    (/\ coachOf[k] = LedgerOnClock
                     /\ LedgerEligible(coachOf[k], p)
                     /\ DraftPlayer(k, p)) => alerted' = NoAlert
              /\ \A d \in DraftCalls :
                    (/\ coachOf[d.client] = LedgerOnClock
                     /\ LedgerEligible(coachOf[d.client], d.player)
                     /\ DraftInsertOk(d)) =>
                        /\ Cardinality(picksTable') = u.len
                        /\ LatestRow(picksTable').id # u.tail]_vars

\* C17: every step of the ledger leaves it unchanged, appends one new pick
\* at its tail, or removes exactly its tail; an insert that succeeds makes it
\* one pick longer and a delete of undoLastPick that succeeds one pick
\* shorter; no pick is edited.
C17_LedgerSteps ==
    [][/\ \/ picksTable' = picksTable
          \/ \E r \in picksTable' \ picksTable :
                /\ picksTable' = picksTable \cup {r}
                /\ r.round = Cardinality(picksTable) + 1
                /\ \A q \in picksTable : q.round < r.round
          \/ /\ picksTable # {}
             /\ picksTable' = picksTable \ {LatestRow(picksTable)}
       /\ \A d \in DraftCalls :
             DraftInsertOk(d) => Cardinality(picksTable') = Cardinality(picksTable) + 1
       /\ \A d \in UndoCalls :
             UndoDelete(d) => Cardinality(picksTable') = Cardinality(picksTable) - 1]_vars

\* C18: draftPlayer checks the draft order first (InvalidConfiguration), the
\* turn second (OutOfTurn) and the player last (TeamConflict,
\* AlreadyDrafted); a submission that fails several checks is answered with
\* the failure of the first check it fails.
C18_CheckOrder ==
    [][\A k \in Clients, p \in Players :
          DraftPlayer(k, p) =>
              LET turn == getCoachIdForPick(Cardinality(picks[k]) + 1, draft_order) IN
              /\ Len(draft_order) = 0 => alerted'.msg = "InvalidConfiguration"
              /\ (Len(draft_order) # 0 /\ turn # coachOf[k])
                    => alerted'.msg = "OutOfTurn"
              /\ alerted'.msg \in {"AlreadyDrafted", "TeamConflict"}
                    => (Len(draft_order) # 0 /\ turn = coachOf[k])]_vars

\* A coach who is not on the clock is answered OutOfTurn while every player
\* of the catalog is already drafted in the picks of that client.
C18_Witness ==
    /\ alerted.op = "draft" /\ alerted.msg = "OutOfTurn"
    /\ {r.player_id : r \in picks[alerted.client]} = Players

\* What the picks of client k hold about player p and the coach of k.
PickedAlready(k, p) == \E r \in picks[k] : r.player_id = p
TeamTaken(k, p) ==
    \E r \in picks[k] :
        r.coach_id = coachOf[k] /\ nfl_team[r.player_id] = nfl_team[p]
PassesTurn(k) ==
    /\ Len(draft_order) # 0
    /\ getCoachIdForPick(Cardinality(picks[k]) + 1, draft_order) = coachOf[k]

C21_FailuresSurfaced ==
    [][\A d \in BagToSet(calls) :
          (\/ DraftInsertError(d)
           \/ UndoError(d)
           \/ LoadSelectError(d)
           \/ (UndoSelect(d) /\ picksTable = {})) =>
              (alerted'.client = d.client /\ alerted'.msg # "none")]_vars

\* The rejections of draftPlayer.
Rejections == {"InvalidConfiguration", "OutOfTurn", "TeamConflict", "AlreadyDrafted"}

\* C22: after a draftPlayer of a client was rejected, a load of the picks
\* of that client comes before its next draftPlayer: the step that follows
\* the rejection is never a submission of that client, which would be
\* validated against the picks the rejected one was validated against.
C22_RefetchAfterRejection ==
    [][\A k \in Clients, p \in Players :
          (/\ alerted.op = "draft" /\ alerted.client = k
           /\ alerted.msg \in Rejections) => ~DraftPlayer(k, p)]_vars

\* C23: while the room has no draft order every draftPlayer and every
\* undoLastPick is rejected with InvalidConfiguration, and the picks table
\* does not change.
C23_NoOrderRejectsAll ==
    [][Len(draft_order) = 0 =>
          /\ \A k \in Clients, p \in Players :
                DraftPlayer(k, p) => alerted'.msg = "InvalidConfiguration"
          /\ \A k \in Clients :
                UndoLastPick(k) => alerted'.msg = "InvalidConfiguration"
          /\ picksTable' = picksTable]_vars

C25_EventRefetches ==
    [][/\ \A k \in Clients :
             DeliverEvent(k) =>
                 /\ picks' = picks
                 /\ \E d \in BagToSet(calls') :
                       /\ d.kind = "load" /\ d.client = k /\ d.pc = "load_select"
                       /\ CopiesIn(d, calls') = CopiesIn(d, calls) + 1
       /\ \A k \in Clients :
             picks'[k] # picks[k] =>
                 \E d \in BagToSet(calls) :
                     /\ d.client = k /\ d.pc = "load_set"
                     /\ picks'[k] = d.data
                     /\ calls' = Finish(d)
       /\ \A d \in BagToSet(calls) :
             LoadSelectOk(d) =>
                 calls' = Advance(d, [d EXCEPT !.pc = "load_set", !.data = picksTable])]_vars

\* While a load started by a notification waits with the current table as
\* its answer, the same notification is delivered again.
C25_Witness ==
    /\ picksTable # {}
    /\ \E d, e \in BagToSet(calls) :
          /\ d.kind = "load" /\ d.pc = "load_set" /\ d.data = picksTable
          /\ d.data # picks[d.client]
          /\ e.kind = "load" /\ e.pc = "load_select" /\ e.client = d.client

\* Nothing is in flight: no call waits for the store or for its answer and
\* no notification waits for its delivery.
Quiescent == calls = EmptyBag /\ \A k \in Clients : events[k] = 0

\* C26: when the mutations of the room have stopped, every notification
\* was delivered and every load it started has completed, the picks of
\* every client equal the picks table, and so every client computes the same
\* coach on the clock.
C26_QuiescentAgreement ==
    Quiescent =>
        /\ \A k \in Clients : picks[k] = picksTable
        /\ \A k1, k2 \in Clients : onTheClockCoachId(k1) = onTheClockCoachId(k2)

\* C30: the picks of a client do not go back: when the client holds the
\* table as it is now and the answer of the last of its overlapping loads
\* arrives (no other call of the client is in flight and no notification
\* waits for it), the picks it holds afterwards are still the table as it
\* is now, not an earlier state of it.
C30_NoRegress ==
    [][\A d \in BagToSet(calls) :
          (/\ LoadSet(d)
           /\ picks[d.client] = picksTable
           /\ events[d.client] = 0
           /\ \A e \in BagToSet(calls') : e.client # d.client) =>
              picks'[d.client] = picksTable]_vars

\* C29: for N >= 1 the N picks of every round (pick numbers (r-1)*N+1 to
\* r*N) are resolved to a permutation of the draft order: no pick is resolved
\* to null and every coach of the order gets exactly one pick of the round.
C29_RoundIsPermutation ==
    (rPick >= 1 /\ Len(rOrder) >= 1) =>
        LET n == Len(rOrder) IN
        /\ Len(rRound) = n
        /\ \A i \in 1..n : rRound[i] # Null
        /\ \A j \in 1..n : Cardinality({i \in 1..n : rRound[i] = rOrder[j]}) = 1
        /\ rResult = rRound[StatedIndex0(rPick, n) + 1]

\* A reversed round of four coaches: the picks of round 3 go to the order
\* read backwards.
C29_Witness ==
    /\ Len(rOrder) = MaxN /\ rPick = 2 * MaxN + 1
    /\ \A i \in 1..MaxN : rRound[i] = rOrder[MaxN + 1 - i]

\* C27: a draftPlayer or undoLastPick of a page of one room leaves the
\* picks of every other room in the table as they are, and the picks a page
\* holds are picks of its own room only; a page is told to reload only by
\* changes of picks of its room.
C27_RoomsIndependent ==
    [][/\ \A v \in Visitors :
             ((\E p \in PlayersTable : RoomDraftPlayer(v, p)) \/ RoomUndoLastPick(v)) =>
                 /\ {r \in store'.picks : r.room_id # pages[v].room}
                      = {r \in store.picks : r.room_id # pages[v].room}
                 /\ \A w \in Visitors :
                       pages'[w].pending > pages[w].pending
                           => pages[w].room = pages[v].room
       /\ \A v \in Visitors :
             \A r \in pages'[v].picks : r.room_id = pages'[v].room]_vars

\* Both rooms have picks in the table, and a page holds exactly the picks
\* of its room.
C27_Witness ==
    /\ \A x \in RoomsTable : \E r \in store.picks : r.room_id = x.id
    /\ \E v \in Visitors :
          /\ pages[v].picks # {}
          /\ pages[v].picks = {r \in store.picks : r.room_id = pages[v].room}

\* C28: a page has status "ok" only if its room code is the code of a room
\* and its token the invite token of a coach of that room, and room and
\* coach of the page are these; every pick in the table carries the room and
\* the coach of the page that inserted it, a coach of that room.
C28_OkOnlyIfAuthenticated ==
    /\ \A v \in Visitors :
          pages[v].status = "ok" =>
              \E x \in RoomsTable, c \in CoachesTable :
                  /\ x.room_code = pages[v].roomCode
                  /\ c.room_id = x.id /\ c.invite_token = pages[v].token
                  /\ pages[v].room = x.id /\ pages[v].coach = c.id
    /\ \A v \in Visitors :
          pages[v].status # "ok" => (pages[v].room = Null /\ pages[v].coach = Null)
    /\ \A r \in store.picks :
          /\ pages[r.by].status = "ok"
          /\ r.room_id = pages[r.by].room /\ r.coach_id = pages[r.by].coach
          /\ \E c \in CoachesTable : c.id = r.coach_id /\ c.room_id = r.room_id

\* A page with its own room and token has inserted a pick, while a page
\* opened with the code of that room and the token of a coach of another
\* room was refused.
C28_Witness ==
    \E v, w \in Visitors :
        /\ pages[v].status = "ok"
        /\ \E r \in store.picks : r.by = v
        /\ pages[w].status = "error"
        /\ \E x \in RoomsTable, c \in CoachesTable :
              /\ x.id = pages[v].room /\ x.room_code = pages[w].roomCode
              /\ c.invite_token = pages[w].token /\ c.room_id # x.id

\* C31: after a successful undoLastPick has removed a pick made by coach P,
\* the coach on the clock for the ledger (the resolver applied to the new
\* length + 1) is P again.
C31_UndoRestoresClock ==
    [][\A d \in UndoCalls :
          (UndoDelete(d) /\ picksTable' # picksTable) =>
              \A r \in picksTable \ picksTable' :
                  getCoachIdForPick(Cardinality(picksTable') + 1, draft_order)
                      = r.coach_id]_vars

\* C32: in every state of the page the availablePlayers list holds no
\* player whose id is among the player ids of the page's picks, no player
\* of position K or DST, and only players of the loaded catalog.
C32_AvailableFiltered ==
    \A i \in 1..Len(playerList.available) :
        LET p == playerList.available[i] IN
        /\ p.id \notin {r.player_id : r \in playerList.picks}
        /\ p.position \notin {<<"K">>, <<"D", "S", "T">>}
        /\ \E j \in 1..Len(playerList.players) : playerList.players[j] = p

\* The catalog is loaded with its K and DST players, one of its players is
\* picked, a search is typed in, and a player is still listed.
C32_Witness ==
    /\ \E j \in 1..Len(playerList.players) : playerList.players[j].position = <<"K">>
    /\ \E j \in 1..Len(playerList.players) : playerList.players[j].position = <<"D", "S", "T">>
    /\ \E j \in 1..Len(playerList.players) :
          playerList.players[j].id \in {r.player_id : r \in playerList.picks}
    /\ trim(playerList.search) # << >>
    /\ playerList.available # << >>

\* The sum of the points of the rows of coach c.
RECURSIVE PointsOf(_, _)
PointsOf(rows, c) ==
    IF rows = << >> THEN 0
    ELSE (IF Head(rows).coach_id = c THEN Head(rows).total_points ELSE 0)
             + PointsOf(Tail(rows), c)

CoachIdsOf(rows) == {rows[i].coach_id : i \in 1..Len(rows)}

\* C33: the standings hold at most one row for a coach, only for coaches of
\* the roster rows (for every one of them when they are twelve or fewer),
\* each with the sum of the coach's roster rows as total; the rows are in
\* the order of total descending, equal totals in the order of coach name
\* ascending; the i-th row has rank i; there are at most 12 rows, and no
\* coach left out has a higher total than a coach listed.
C33_Standings ==
    LET rows == standingsPage.rows
        st == standingsPage.standings
    IN  /\ \A i, j \in 1..Len(st) : st[i].coach_id = st[j].coach_id => i = j
        /\ \A i \in 1..Len(st) :
              /\ st[i].coach_id \in CoachIdsOf(rows)
              /\ st[i].total_points = PointsOf(rows, st[i].coach_id)
              /\ st[i].rank = i
        /\ \A i, j \in 1..Len(st) :
              i < j =>
                 \/ st[i].total_points > st[j].total_points
                 \/ /\ st[i].total_points = st[j].total_points
                    /\ localeCompare(st[i].coach_name, st[j].coach_name) <= 0
        /\ Len(st) <= 12
        /\ Cardinality(CoachIdsOf(rows)) <= 12 => Len(st) = Cardinality(CoachIdsOf(rows))
        /\ \A c \in CoachIdsOf(rows) \ {st[i].coach_id : i \in 1..Len(st)} :
              /\ Len(st) = 12
              /\ PointsOf(rows, c) <= st[12].total_points

\* Standings of more than twelve coaches, one of them with two rows that
\* both count, with equal totals among the coaches listed and a coach left
\* out.
C33_Witness ==
    /\ Cardinality(CoachIdsOf(standingsPage.rows)) > 12
    /\ Len(standingsPage.rows) > Cardinality(CoachIdsOf(standingsPage.rows))
    /\ Len(standingsPage.standings) = 12
    /\ \E i \in 1..12 :
          /\ standingsPage.standings[i].coach_id = standingsPage.rows[1].coach_id
          /\ standingsPage.standings[i].total_points
                 > standingsPage.rows[1].total_points
          /\ standingsPage.rows[1].total_points > 0
    /\ \E i \in 1..11 : standingsPage.standings[i].total_points
                            = standingsPage.standings[i + 1].total_points

\* The sum of the points of the rows of a list.
RECURSIVE SumPoints(_)
SumPoints(rows) ==
    IF rows = << >> THEN 0 ELSE Head(rows).total_points + SumPoints(Tail(rows))

\* C34: the rosters grouping puts every loaded roster row into exactly one
\* team, once, and that team is the team of the row's coach_id; the teams
\* hold no other rows; the total of each team is the sum of the
\* total_points of its rows; the teams are in the order of total
\* descending, equal totals in the order of coach name ascending.
C34_RostersGrouping ==
    LET rows == rostersPage.rows
        g == rostersPage.grouped
    IN  /\ \A i \in 1..Len(rows) :
              \E t \in 1..Len(g) :
                 /\ g[t].coach_id = rows[i].coach_id
                 /\ Cardinality({k \in 1..Len(g[t].players) :
                                   g[t].players[k] = rows[i]}) = 1
                 /\ \A u \in 1..Len(g) :
                       u # t => \A k \in 1..Len(g[u].players) :
                                   g[u].players[k] # rows[i]
        /\ \A t \in 1..Len(g) :
              /\ g[t].players # << >>
              /\ \A k \in 1..Len(g[t].players) :
                    \E i \in 1..Len(rows) : rows[i] = g[t].players[k]
              /\ g[t].total = SumPoints(g[t].players)
        /\ \A t, u \in 1..Len(g) :
              t < u =>
                 \/ g[t].total > g[u].total
                 \/ /\ g[t].total = g[u].total
                    /\ localeCompare(g[t].coach_name, g[u].coach_name) <= 0

\* Three rows of two coaches of different names and equal totals, the
\* coach that comes later by name first among the rows.
C34_Witness ==
    /\ Len(rostersPage.rows) = 3
    /\ Len(rostersPage.grouped) = 2
    /\ rostersPage.grouped[1].total = rostersPage.grouped[2].total
    /\ rostersPage.grouped[1].total > 0
    /\ rostersPage.grouped[1].coach_name # rostersPage.grouped[2].coach_name
    /\ rostersPage.rows[1].coach_id = rostersPage.grouped[2].coach_id

\* C35: a client whose busyPlayerId is set has it reset to null in the
\* end; a draftPlayer that has set it and rejects the player resets it in
\* the same step, and the step that ends a draftPlayer call, with success,
\* with an error of the insert or with a failed load, resets it.
C35_BusyReset ==
    /\ \A k \in Clients : (busyPlayerId[k] # Null) ~> (busyPlayerId[k] = Null)
    /\ [][/\ \A k \in Clients, p \in Players :
                (DraftPlayer(k, p) /\ alerted'.msg \in {"TeamConflict", "AlreadyDrafted"})
                    => busyPlayerId'[k] = Null
          /\ \A d \in DraftCalls :
                calls' = Finish(d) => busyPlayerId'[d.client] = Null]_vars

\* A draftPlayer call in flight has set busyPlayerId to its player.
C35_Witness ==
    \E d \in DraftCalls : busyPlayerId[d.client] = d.player

====
